---- MODULE Spec2Model ----
(***************************************************************************)
(* Model of the CDK workshop hit counter: the HitCounter construct         *)
(* (hitcounter.py), the counting handler (lambda/hitcount.py) and the      *)
(* downstream handler (lambda/hello.py).                                   *)
(*                                                                         *)
(* Text is a sequence of chunks; a chunk is one character that JSON        *)
(* escapes (quote, backslash, newline), the letter n, or a run of          *)
(* characters that JSON leaves alone.                                      *)
(* A Python value and a JSON text are both tagged records [t, v]; in a     *)
(* JSON text strings are in escaped form and numbers are digit sequences.  *)
(***************************************************************************)
EXTENDS Integers, Sequences, FiniteSets, TLC

\* ------------------------------------------------------------- bounds
\* Number of requests the routing layer delivers, each to its own handler
\* instance.
NumRequests == 2

\* Calls of one kind a single request is followed through (the handler as
\* written makes one).
MaxCalls == 2

Reqs == 1..NumRequests

\* ------------------------------------------------------------- text
Quote == "\""
Backslash == "\\"
Newline == "\n"
LetterN == "n"

Str(s) == [t |-> "str", v |-> s]
Num(n) == [t |-> "num", v |-> n]
Obj(f) == [t |-> "obj", v |-> f]

\* json.dumps of a str: quote, backslash and newline are escaped.
RECURSIVE Escape(_)
Escape(s) ==
    IF s = <<>> THEN <<>>
    ELSE LET c == Head(s)
             e == IF c = Quote THEN <<Backslash, Quote>>
                  ELSE IF c = Backslash THEN <<Backslash, Backslash>>
                  ELSE IF c = Newline THEN <<Backslash, LetterN>>
                  ELSE <<c>>
         IN  e \o Escape(Tail(s))

\* An unescape that forgets the newline escape.
RECURSIVE UnescapeNoNewline(_)
UnescapeNoNewline(s) ==
    IF s = <<>> THEN <<>>
    ELSE IF Head(s) = Backslash /\ Len(s) >= 2
         THEN <<s[2]>> \o UnescapeNoNewline(Tail(Tail(s)))
         ELSE <<Head(s)>> \o UnescapeNoNewline(Tail(s))

\* json.loads of a str: the inverse of Escape on escaped text.
RECURSIVE Unescape(_)
Unescape(s) ==
    IF s = <<>> THEN <<>>
    ELSE IF Head(s) = Backslash /\ Len(s) >= 2
         THEN LET d == s[2]
                  c == IF d = LetterN THEN Newline ELSE d
              IN  <<c>> \o Unescape(Tail(Tail(s)))
         ELSE <<Head(s)>> \o Unescape(Tail(s))

\* Decimal digits of a natural number, and back.
RECURSIVE Digits(_)
Digits(n) == IF n < 10 THEN <<n>> ELSE Digits(n \div 10) \o <<n % 10>>

RECURSIVE FromDigits(_)
FromDigits(d) ==
    IF Len(d) = 1 THEN d[1]
    ELSE 10 * FromDigits(SubSeq(d, 1, Len(d) - 1)) + d[Len(d)]

\* json.dumps: a Python value to JSON text.
RECURSIVE Dumps(_)
Dumps(x) ==
    IF x.t = "str" THEN [t |-> "str", v |-> Escape(x.v)]
    ELSE IF x.t = "num" THEN [t |-> "num", v |-> Digits(x.v)]
    ELSE [t |-> "obj", v |-> [k \in DOMAIN x.v |-> Dumps(x.v[k])]]

JSONDecodeError == [t |-> "JSONDecodeError"]

\* A payload that is not JSON text, and the empty payload of a call that has
\* no response (yet).
Garbage == [t |-> "garbage"]
NoPayload == [t |-> "none"]

\* json.loads: JSON text to a Python value; raises on text that is not JSON.
RECURSIVE Loads(_)
Loads(w) ==
    IF w.t \in {"garbage", "none"} THEN JSONDecodeError
    ELSE IF w.t = "str" THEN [t |-> "str", v |-> Unescape(w.v)]
    ELSE IF w.t = "num" THEN [t |-> "num", v |-> FromDigits(w.v)]
    ELSE [t |-> "obj", v |-> [k \in DOMAIN w.v |-> Loads(w.v[k])]]

\* ------------------------------------------------------------- requests
EmptyPath == <<>>

Paths == {EmptyPath, <<"/">>, <<"/", "hello">>, <<"/", Quote, LetterN>>}

\* The events the routing layer can hand to the handler: with a path, or
\* without one.
Events == {Obj([path |-> Str(p)]) : p \in Paths}
          \cup {Obj([httpMethod |-> Str(<<"GET">>)])}

NoEvent == Obj([none |-> Str(<<>>)])

KeyError == [t |-> "KeyError"]

\* event.get('path', '/'): a missing path silently becomes a default key.
PathOfDefault(ev) ==
    IF "path" \in DOMAIN ev.v THEN ev.v.path ELSE Str(<<"/">>)

\* event['path']: the value under 'path', or KeyError when there is none.
PathOf(ev) ==
    IF "path" \in DOMAIN ev.v THEN ev.v.path ELSE KeyError

HasPath(ev) == "path" \in DOMAIN ev.v

\* ------------------------------------------------------------- hello.py
HelloStatus == 200

HelloResponse(ev) ==
    Obj([statusCode |-> Num(HelloStatus),
         headers |-> Obj([k \in {"Content-Type"} |-> Str(<<"text/plain">>)]),
         body |-> Str(<<"Hello, CDK! You have hit ">> \o ev.v.path.v
                      \o <<Newline>>)])

\* What the Lambda service reports for a handler that raised or timed out.
ErrorObject(kind) ==
    Obj([errorMessage |-> Str(<<kind>>)])

\* ------------------------------------------------------------- grants
HandlerRole == "HitCounterHandler-role"
LambdaService == "lambda.amazonaws.com"
OtherRole == "other-role"
HandlerArn == "arn:HitCounterHandler"
OtherArn == "arn:other-function"
StackAccount == "stack-account"
OtherAccount == "other-account"
AnySource == "*"

Principals == {HandlerRole, LambdaService, OtherRole}
Arns == {HandlerArn, OtherArn}
Accounts == {StackAccount, OtherAccount}

Grant(p, a, res, acct, arn) ==
    [principal |-> p, action |-> a, resource |-> res,
     sourceAccount |-> acct, sourceArn |-> arn]

\* The service permission with the source ARN condition left out.
DeclaredGrantsNoSourceArn ==
    { Grant(HandlerRole, "dynamodb:ReadWriteData", "Hits", AnySource, AnySource),
      Grant(HandlerRole, "lambda:InvokeFunction", "downstream", AnySource, AnySource),
      Grant(LambdaService, "lambda:InvokeFunction", "downstream",
            StackAccount, AnySource) }

\* The grants HitCounter.__init__ declares.
DeclaredGrants ==
    { Grant(HandlerRole, "dynamodb:ReadWriteData", "Hits", AnySource, AnySource),
      Grant(HandlerRole, "lambda:InvokeFunction", "downstream", AnySource, AnySource),
      Grant(LambdaService, "lambda:InvokeFunction", "downstream",
            StackAccount, HandlerArn) }

\* A call as the transport sees it, and whether a set of grants allows it.
Call(p, a, res, acct, arn) == Grant(p, a, res, acct, arn)

Allowed(gs, c) ==
    \E g \in gs :
        /\ g.principal = c.principal
        /\ g.action = c.action
        /\ g.resource = c.resource
        /\ g.sourceAccount \in {AnySource, c.sourceAccount}
        /\ g.sourceArn \in {AnySource, c.sourceArn}

\* The calls the handler instance makes under its own identity.
HandlerTableCall ==
    Call(HandlerRole, "dynamodb:ReadWriteData", "Hits", StackAccount, HandlerArn)
HandlerInvokeCall ==
    Call(HandlerRole, "lambda:InvokeFunction", "downstream", StackAccount,
         HandlerArn)

\* ------------------------------------------------------------- counter store
Hits(t, key) == IF key \in DOMAIN t THEN t[key] ELSE 0

\* UpdateExpression 'SET hits = :incr': overwrites instead of adding.
SetHits(t, key) ==
    [k \in DOMAIN t \cup {key} |-> IF k = key THEN 1 ELSE t[k]]

\* The non-idempotent ADD applied twice (a retried update).
AddHitsTwice(t, key) ==
    [k \in DOMAIN t \cup {key} |-> IF k = key THEN Hits(t, k) + 2 ELSE t[k]]

\* UpdateExpression 'ADD hits :incr' with :incr = 1, one atomic update that
\* creates the item when the key is new.
AddHits(t, key) ==
    [k \in DOMAIN t \cup {key} |-> IF k = key THEN Hits(t, k) + 1 ELSE t[k]]

\* The table's partition key is a string attribute; the store rejects an
\* update whose key attribute is the empty string.
ValidKey(key) == key # EmptyPath

\* ------------------------------------------------------------- state
VARIABLES
    grants,       \* the grants in force, set at provisioning
    table,        \* the Hits table: path -> hits, for the paths it has an item for
    pc,           \* per request: the handler instance's position
    event,        \* per request: the event it was invoked with
    issued,       \* per request: update_item calls issued
    committed,    \* per request: update_item calls the store committed
    invoked,      \* per request: invoke calls issued
    payload,      \* per request: the payload sent to the downstream function
    outcome,      \* per request: how the downstream run ended
    produced,     \* per request: the value the downstream handler returned
    response,     \* per request: what invoke returned: FunctionError, Payload
    result,       \* per request: how the handler ended and with what
    lastDirect    \* the latest invocation of the downstream by some principal

vars == <<grants, table, pc, event, issued, committed, invoked, payload,
          outcome, produced, response, result, lastDirect>>

NoValue == [t |-> "none"]
NoResponse == [FunctionError |-> FALSE, Payload |-> NoPayload, ready |-> FALSE]
NoResult == [status |-> "none", value |-> NoValue]
Returned(v) == [status |-> "returned", value |-> v]
Raised(e) == [status |-> "raised", value |-> [t |-> e]]
NoDirect == [made |-> FALSE, call |-> HandlerInvokeCall, reached |-> FALSE]

Init ==
    /\ grants = DeclaredGrants
    /\ table = [k \in {} |-> 0]
    /\ pc = [r \in Reqs |-> "idle"]
    /\ event = [r \in Reqs |-> NoEvent]
    /\ issued = [r \in Reqs |-> 0]
    /\ committed = [r \in Reqs |-> 0]
    /\ invoked = [r \in Reqs |-> 0]
    /\ payload = [r \in Reqs |-> NoPayload]
    /\ outcome = [r \in Reqs |-> "none"]
    /\ produced = [r \in Reqs |-> NoValue]
    /\ response = [r \in Reqs |-> NoResponse]
    /\ result = [r \in Reqs |-> NoResult]
    /\ lastDirect = NoDirect

\* ------------------------------------------------------------- hitcount.py
\* An exception raised by update_item is swallowed and the handler goes on.
StoreErrorSwallow == "invoke"

\* Where the handler is after update_item raised: nothing catches it.
StoreErrorNext == "failed"

\* An exception raised by invoke is retried.
InvokeErrorRetry == "invoke"

\* Where the handler is after invoke raised: nothing catches it.
InvokeErrorNext == "failed"

\* The routing layer invokes a handler instance with an event.
Receive(r, ev) ==
    /\ pc[r] = "idle"
    /\ pc' = [pc EXCEPT ![r] = "update_item"]
    /\ event' = [event EXCEPT ![r] = ev]
    /\ UNCHANGED <<grants, table, issued, committed, invoked, payload,
                   outcome, produced, response, result, lastDirect>>

\* table.update_item(Key={'path': event['path']}, 'ADD hits :incr'); ok says
\* whether the store commits an update it accepts.
UpdateItem(r, ok) ==
    /\ pc[r] = "update_item"
    /\ issued[r] < MaxCalls
    /\ LET got == PathOf(event[r])
           key == got.v
       IN
       IF got.t = "KeyError"
       THEN /\ pc' = [pc EXCEPT ![r] = "failed"]
            /\ result' = [result EXCEPT ![r] = Raised("KeyError")]
            /\ UNCHANGED <<table, issued, committed>>
       ELSE /\ issued' = [issued EXCEPT ![r] = @ + 1]
            /\ IF Allowed(grants, HandlerTableCall) /\ ValidKey(key) /\ ok
               THEN /\ table' = AddHits(table, key)
                    /\ committed' = [committed EXCEPT ![r] = @ + 1]
                    /\ pc' = [pc EXCEPT ![r] = "invoke"]
                    /\ UNCHANGED result
               ELSE /\ pc' = [pc EXCEPT ![r] = StoreErrorNext]
                    /\ result' = [result EXCEPT ![r] =
                            IF StoreErrorNext = "failed"
                            THEN Raised("ClientError") ELSE @]
                    /\ UNCHANGED <<table, committed>>
    /\ UNCHANGED <<grants, event, invoked, payload, outcome, produced,
                   response, lastDirect>>

\* _lambda.invoke(FunctionName=..., Payload=json.dumps(event)): the call is
\* issued; it raises at once if the transport refuses it.
Invoke(r) ==
    /\ pc[r] = "invoke"
    /\ invoked[r] < MaxCalls
    /\ invoked' = [invoked EXCEPT ![r] = @ + 1]
    /\ IF Allowed(grants, HandlerInvokeCall)
       THEN /\ payload' = [payload EXCEPT ![r] = Dumps(event[r])]
            /\ pc' = [pc EXCEPT ![r] = "waiting"]
            /\ UNCHANGED result
       ELSE /\ pc' = [pc EXCEPT ![r] = InvokeErrorNext]
            /\ result' = [result EXCEPT ![r] =
                    IF InvokeErrorNext = "failed"
                    THEN Raised("ClientError") ELSE @]
            /\ UNCHANGED payload
    /\ UNCHANGED <<grants, table, event, issued, committed, outcome,
                   produced, response, lastDirect>>

\* The call raises instead of returning: a transport error or the client's
\* read timeout, before or after the downstream function ran.
InvokeRaise(r) ==
    /\ pc[r] = "waiting"
    /\ pc' = [pc EXCEPT ![r] = InvokeErrorNext]
    /\ result' = [result EXCEPT ![r] =
            IF InvokeErrorNext = "failed"
            THEN Raised("InvocationError") ELSE @]
    /\ UNCHANGED <<grants, table, event, issued, committed, invoked, payload,
                   outcome, produced, response, lastDirect>>

DownstreamOutcomes == {"ok", "remote_error", "timeout", "malformed"}

\* The downstream function runs on the payload. With "ok" it is hello.handler
\* returning normally; the other outcomes are those of an arbitrary downstream
\* function: it raises, it times out, or its payload is not JSON. A function
\* that raised or timed out is reported in the response (FunctionError and an
\* error object as payload); the invoke call itself still returns.
DownstreamRun(r, o) ==
    /\ pc[r] = "waiting"
    /\ outcome[r] = "none"
    /\ LET ev == Loads(payload[r]) IN
       IF o = "ok" /\ HasPath(ev)
       THEN /\ outcome' = [outcome EXCEPT ![r] = "ok"]
            /\ produced' = [produced EXCEPT ![r] = HelloResponse(ev)]
            /\ response' = [response EXCEPT ![r] =
                    [FunctionError |-> FALSE,
                     Payload |-> Dumps(HelloResponse(ev)), ready |-> TRUE]]
       ELSE IF o = "malformed"
       THEN /\ outcome' = [outcome EXCEPT ![r] = "malformed"]
            /\ response' = [response EXCEPT ![r] =
                    [FunctionError |-> FALSE, Payload |-> Garbage,
                     ready |-> TRUE]]
            /\ UNCHANGED produced
       ELSE LET kind == IF o = "ok" THEN "remote_error" ELSE o IN
            /\ outcome' = [outcome EXCEPT ![r] = kind]
            /\ response' = [response EXCEPT ![r] =
                    [FunctionError |-> TRUE,
                     Payload |-> Dumps(ErrorObject(kind)), ready |-> TRUE]]
            /\ UNCHANGED produced
    /\ UNCHANGED <<grants, table, pc, event, issued, committed, invoked,
                   payload, result, lastDirect>>

\* InvocationType='Event': invoke returns at once, with an empty payload.
ResponseReadyAsync(r) == TRUE

\* invoke is synchronous (InvocationType defaults to RequestResponse): it
\* returns when the response of the downstream run is there.
ResponseReady(r) == response[r].ready

\* invoke returned: body = resp['Payload'].read(); return json.loads(body).
\* Nothing looks at resp['FunctionError'].
ReadPayload(r) ==
    /\ pc[r] = "waiting"
    /\ ResponseReady(r)
    /\ LET v == Loads(response[r].Payload) IN
       IF v.t = "JSONDecodeError"
       THEN /\ pc' = [pc EXCEPT ![r] = "failed"]
            /\ result' = [result EXCEPT ![r] = Raised("JSONDecodeError")]
       ELSE /\ pc' = [pc EXCEPT ![r] = "done"]
            /\ result' = [result EXCEPT ![r] = Returned(v)]
    /\ UNCHANGED <<grants, table, event, issued, committed, invoked, payload,
                   outcome, produced, response, lastDirect>>

\* ------------------------------------------------------------- transport
\* Some principal invokes the downstream function directly; the transport
\* lets the call through only if a grant allows it.
DirectInvoke(p, acct, arn) ==
    /\ LET c == Call(p, "lambda:InvokeFunction", "downstream", acct, arn) IN
       lastDirect' = [made |-> TRUE, call |-> c, reached |-> Allowed(grants, c)]
    /\ UNCHANGED <<grants, table, pc, event, issued, committed, invoked,
                   payload, outcome, produced, response, result>>

\* One step of the handler instance of request r, or of the downstream run
\* it waits for.
Handler(r) ==
    \/ \E ev \in Events : Receive(r, ev)
    \/ \E ok \in BOOLEAN : UpdateItem(r, ok)
    \/ Invoke(r)
    \/ InvokeRaise(r)
    \/ \E o \in DownstreamOutcomes : DownstreamRun(r, o)
    \/ ReadPayload(r)

\* The handler instances of all requests, interleaved.
Next == \E r \in Reqs : Handler(r)

Spec == Init /\ [][Next]_vars

\* One handler instance, and any principal invoking the downstream directly.
NextAccess ==
    \/ Handler(1)
    \/ \E p \in Principals, acct \in Accounts, arn \in Arns :
            DirectInvoke(p, acct, arn)

SpecAccess == Init /\ [][NextAccess]_vars

\* ------------------------------------------------------------- properties
Started(r) == pc[r] # "idle"
Finished(r) == pc[r] \in {"done", "failed"}
ValidPath(r) ==
    Started(r) /\ HasPath(event[r]) /\ event[r].v.path.v # EmptyPath
InvalidPath(r) == Started(r) /\ ~ValidPath(r)
WithPath(p) == {r \in Reqs : ValidPath(r) /\ event[r].v.path.v = p}
IncrementFailed(r) == issued[r] > committed[r]
InvocationFailed(r) ==
    \/ outcome[r] \in {"remote_error", "timeout", "malformed"}
    \/ result[r] = Raised("InvocationError")

RECURSIVE SumCommitted(_)
SumCommitted(rs) ==
    IF rs = {} THEN 0
    ELSE LET r == CHOOSE x \in rs : TRUE
         IN  committed[r] + SumCommitted(rs \ {r})

\* C1: once every request for a path is past its increment and the store
\* failed none of them, hits for the path is the number of those requests,
\* whatever the interleaving of the handler instances.
C1_AtomicCount ==
    \A p \in Paths \ {EmptyPath} :
        (\A r \in WithPath(p) :
            pc[r] # "update_item" /\ ~IncrementFailed(r))
        => Hits(table, p) = Cardinality(WithPath(p))

C1_Witness ==
    \E p \in Paths :
        /\ Cardinality(WithPath(p)) >= 2
        /\ \A r \in WithPath(p) : committed[r] = 1 /\ pc[r] = "waiting"
        /\ Hits(table, p) = Cardinality(WithPath(p))

\* C2: a request whose increment failed ends in failure and the downstream
\* is never invoked for it; no invocation exists without a committed
\* increment.
C2_NoForwardWithoutCount ==
    \A r \in Reqs :
        /\ IncrementFailed(r) =>
              /\ pc[r] = "failed"
              /\ result[r].status = "raised"
        /\ committed[r] = 0 =>
              /\ invoked[r] = 0
              /\ payload[r] = NoPayload
              /\ outcome[r] = "none"

C2_Witness ==
    \E r \in Reqs :
        /\ ValidPath(r)
        /\ IncrementFailed(r)
        /\ pc[r] = "failed"
        /\ invoked[r] = 0

C4_PassThrough ==
    \A r \in Reqs :
        (pc[r] = "done" /\ committed[r] = 1 /\ outcome[r] = "ok") =>
            /\ result[r].status = "returned"
            /\ result[r].value = produced[r]
            /\ produced[r] = HelloResponse(event[r])

C4_Witness ==
    /\ \A r \in Reqs : pc[r] = "done" /\ outcome[r] = "ok"
    /\ \E r \in Reqs :
          /\ event[r].v.path.v = <<"/", Quote, LetterN>>
          /\ result[r].value.v.body.v =
                <<"Hello, CDK! You have hit ", "/", Quote, LetterN, Newline>>
    /\ \E r \in Reqs : event[r].v.path.v = <<"/", "hello">>

\* C5 (as claimed): a request whose downstream invocation timed out or failed
\* after its increment was committed ends in an error, and hits for its path
\* keeps the increment.
C5_FailureAfterCount ==
    \A r \in Reqs :
        (Finished(r) /\ committed[r] = 1 /\ InvocationFailed(r)) =>
            /\ result[r].status = "raised"
            /\ Hits(table, event[r].v.path.v) >= 1

\* C6 (as claimed): the handler returns normally only the response of a
\* downstream run that succeeded; every failed invocation ends in failure.
C6_FailurePropagates ==
    \A r \in Reqs :
        result[r].status = "returned" =>
            /\ ~response[r].FunctionError
            /\ outcome[r] = "ok"

\* C7: the grants stay as declared, and an invocation reaches the downstream
\* only from the handler's own identity: its role, or the Lambda service
\* acting for the handler's ARN in the stack's account.
FromHandler(c) ==
    \/ c.principal = HandlerRole
    \/ /\ c.principal = LambdaService
       /\ c.sourceAccount = StackAccount
       /\ c.sourceArn = HandlerArn

C7_OnlyHandlerInvokes ==
    /\ grants = DeclaredGrants
    /\ (lastDirect.made /\ lastDirect.reached) => FromHandler(lastDirect.call)
    /\ (lastDirect.made /\ ~FromHandler(lastDirect.call)) => ~lastDirect.reached

C7_Witness ==
    /\ lastDirect.made
    /\ lastDirect.call.principal = LambdaService
    /\ lastDirect.call.sourceAccount = StackAccount
    /\ lastDirect.call.sourceArn = OtherArn
    /\ ~lastDirect.reached
    /\ outcome[1] = "ok"

\* C8: hits for a path is the number of committed increments for it; a step
\* leaves it alone or adds exactly 1, for the path of the request that took
\* the step only; items are never removed.
C8_HitsStep ==
    \A p \in Paths :
        /\ Hits(table', p) \in {Hits(table, p), Hits(table, p) + 1}
        /\ p \in DOMAIN table => p \in DOMAIN table'
        /\ Hits(table', p) = Hits(table, p) + 1 =>
              \E r \in WithPath(p) :
                  /\ pc[r] = "update_item"
                  /\ committed'[r] = committed[r] + 1
                  /\ \A q \in Paths \ {p} : Hits(table', q) = Hits(table, q)

C8_HitsCount ==
    /\ DOMAIN table \subseteq Paths
    /\ \A p \in Paths :
          /\ Hits(table, p) = SumCommitted(WithPath(p))
          /\ p \in DOMAIN table <=> Hits(table, p) >= 1

C8_Monotonic == []C8_HitsCount /\ [][C8_HitsStep]_vars

C8_Witness ==
    /\ table = [k \in {<<"/">>} |-> 2]
    /\ \A r \in Reqs : committed[r] = 1

C10_Counts ==
    \A r \in Reqs :
        /\ issued[r] <= 1
        /\ committed[r] <= 1
        /\ invoked[r] <= 1
        /\ pc[r] = "failed" => result[r].status = "raised"

C10_Terminal ==
    \A r \in Reqs :
        Finished(r) =>
            /\ pc'[r] = pc[r]
            /\ issued'[r] = issued[r]
            /\ invoked'[r] = invoked[r]
            /\ result'[r] = result[r]

====
